---------------------------- MODULE Spec2Model ----------------------------
(***************************************************************************)
(* Model of the rental-listing normalization backend                       *)
(* (src/backend/src/main.rs): the price text normalizer, the three source  *)
(* parsers, the filter evaluator, the search_rentals pipeline and the      *)
(* snapshot lookup find_latest_parquet.                                    *)
(*                                                                         *)
(* Conventions                                                             *)
(*   - a Rust String is a sequence of one-character strings;               *)
(*   - Option<T> / Result<T, E> are the tagged tuples <<"None">> and       *)
(*     <<"Some", v>> (an Err carries no information the code uses);        *)
(*   - an f64 that comes from decimal text is the exact decimal            *)
(*     [n |-> digits, e |-> number of fraction digits], kept normalised;   *)
(*     within the bounds of the model every such value is far below 2^53,  *)
(*     so f64 comparison agrees with the exact comparison used here;       *)
(*   - a parquet field is a tagged tuple <<"Str", s>>, <<"Long", n>>,      *)
(*     <<"Double", d>>, <<"Bool", b>>, <<"List", l>>, <<"Group", g>> or    *)
(*     <<"Null">>; a typed accessor on a field of another tag is an Err.   *)
(***************************************************************************)
EXTENDS Integers, Sequences, FiniteSets, TLC

VARIABLES
    params,      \* SearchParams of the running search_rentals call
    fs,          \* housing_data/processed: directory name -> latest snapshot
    pc,          \* position of search_rentals: "source", "rows" or "done"
    srcIdx,      \* index into `sources` of the source being processed
    rowIdx,      \* index of the next row of the open snapshot
    properties,  \* the Vec<StandardizedProperty> being accumulated
    now,         \* the wall clock's instant, as chrono::{Utc,Local}::now() reads it
    call         \* a single function application: its name, input and result

vars == <<params, fs, pc, srcIdx, rowIdx, properties, now, call>>

-----------------------------------------------------------------------------
(* Option / Result *)

None == <<"None">>
Some(v) == <<"Some", v>>
IsSome(o) == o[1] = "Some"
IsNone(o) == o[1] = "None"
Val(o) == o[2]

-----------------------------------------------------------------------------
(* Characters and strings *)

Digits == {"0", "1", "2", "3", "4", "5", "6", "7", "8", "9"}

\* The alphabet of the model: ASCII without the grave accent, the Latin-1
\* supplement, the Greek mu, the digraphs of dz with caron, the euro sign and
\* the whitespace below.  LowerLetters and UpperLetters pair the letters that
\* have a one-letter counterpart in the other case, position by position.
\* "ÿ" belongs to the alphabet, but its upper case (U+0178) lies outside it.
LowerLetters == <<"a", "b", "c", "d", "e", "f", "g", "h", "i", "j", "k",
                  "l", "m", "n", "o", "p", "q", "r", "s", "t", "u", "v",
                  "w", "x", "y", "z", "à", "á", "â", "ã", "ä", "å", "æ",
                  "ç", "è", "é", "ê", "ë", "ì", "í", "î", "ï", "ð", "ñ",
                  "ò", "ó", "ô", "õ", "ö", "ø", "ù", "ú", "û", "ü", "ý",
                  "þ", "μ", "ǆ">>
UpperLetters == <<"A", "B", "C", "D", "E", "F", "G", "H", "I", "J", "K",
                  "L", "M", "N", "O", "P", "Q", "R", "S", "T", "U", "V",
                  "W", "X", "Y", "Z", "À", "Á", "Â", "Ã", "Ä", "Å", "Æ",
                  "Ç", "È", "É", "Ê", "Ë", "Ì", "Í", "Î", "Ï", "Ð", "Ñ",
                  "Ò", "Ó", "Ô", "Õ", "Ö", "Ø", "Ù", "Ú", "Û", "Ü", "Ý",
                  "Þ", "Μ", "Ǆ">>

\* char::is_whitespace (Unicode White_Space): U+0009..U+000D, U+0020, U+0085,
\* U+00A0 and U+1680.  The White_Space characters from U+2000 on (U+2000..
\* U+200A, U+2028, U+2029, U+202F, U+205F, U+3000) cannot be written in a
\* string of this module and are outside the model's alphabet.
Whitespace == {" ", "\t", "\n", "\r", "\f", "", "", " ", " "}

IndexIn(c, letters) == CHOOSE i \in 1..Len(letters) : letters[i] = c
InSeq(c, letters) == \E i \in 1..Len(letters) : letters[i] = c

\* The characters of the alphabet that have no case: whitespace, digits,
\* punctuation and symbols, and the ordinal indicators.
Uncased ==
    Whitespace \cup Digits
      \cup {"!", "\"", "#", "$", "%", "&", "'", "(", ")", "*", "+",
            ",", "-", ".", "/", ":", ";", "<", "=", ">", "?", "@",
            "[", "\\", "]", "^", "_", "{", "|", "}", "~"}
      \cup {"¡", "¢", "£", "¤", "¥", "¦", "§", "¨", "©", "ª", "«",
            "¬", "­", "®", "¯", "°", "±", "²", "³", "´", "¶", "·", "¸", "¹", "º",
            "»", "¼", "½", "¾", "¿", "×", "÷", "€"}

\* char::to_uppercase / to_lowercase: the characters a character maps to.
\* "ß" upper-cases to two characters; the micro sign upper-cases to the
\* Greek capital mu; the titlecase digraph "ǅ" has both an upper and a
\* lower case.  Both mappings are defined on the alphabet only: a character
\* outside it has no arm, and neither has the upper case of "ÿ".
ToUpperChar(c) ==
    CASE c \in Uncased -> <<c>>
      [] InSeq(c, UpperLetters) -> <<c>>
      [] InSeq(c, LowerLetters) -> <<UpperLetters[IndexIn(c, LowerLetters)]>>
      [] c = "ß" -> <<"S", "S">>
      [] c = "µ" -> <<"Μ">>
      [] c = "ǅ" -> <<"Ǆ">>
ToLowerChar(c) ==
    CASE c \in Uncased -> <<c>>
      [] InSeq(c, LowerLetters) -> <<c>>
      [] InSeq(c, UpperLetters) -> <<LowerLetters[IndexIn(c, UpperLetters)]>>
      [] c \in {"ß", "µ", "ÿ"} -> <<c>>
      [] c = "ǅ" -> <<"ǆ">>

\* str::to_uppercase / to_lowercase: the mapping of each character in turn.
RECURSIVE to_uppercase(_)
to_uppercase(s) == IF s = <<>> THEN <<>> ELSE ToUpperChar(Head(s)) \o to_uppercase(Tail(s))
RECURSIVE to_lowercase(_)
to_lowercase(s) == IF s = <<>> THEN <<>> ELSE ToLowerChar(Head(s)) \o to_lowercase(Tail(s))

\* str::trim: strip leading and trailing whitespace.
RECURSIVE trim_start(_)
trim_start(s) == IF s # <<>> /\ Head(s) \in Whitespace THEN trim_start(Tail(s)) ELSE s
RECURSIVE trim_end(_)
trim_end(s) ==
    IF s # <<>> /\ s[Len(s)] \in Whitespace THEN trim_end(SubSeq(s, 1, Len(s) - 1)) ELSE s
trim(s) == trim_end(trim_start(s))

\* str::trim_start_matches(char): strip every leading occurrence of c.
RECURSIVE trim_start_matches(_, _)
trim_start_matches(s, c) ==
    IF s # <<>> /\ Head(s) = c THEN trim_start_matches(Tail(s), c) ELSE s

IsSuffix(suf, s) ==
    /\ Len(suf) <= Len(s)
    /\ SubSeq(s, Len(s) - Len(suf) + 1, Len(s)) = suf

\* str::trim_end_matches(&str): strip the suffix as often as it repeats.
RECURSIVE trim_end_matches(_, _)
trim_end_matches(s, suf) ==
    IF suf # <<>> /\ IsSuffix(suf, s)
    THEN trim_end_matches(SubSeq(s, 1, Len(s) - Len(suf)), suf)
    ELSE s

\* str::split(pattern).next(): the text before the first separator (the whole
\* text when there is none).  `seps` is the set of indices holding a separator.
FirstPiece(s, seps) ==
    IF seps = {} THEN s
    ELSE SubSeq(s, 1, (CHOOSE i \in seps : \A j \in seps : i <= j) - 1)

\* str::contains(&str)
contains(s, pat) ==
    \E i \in 0..(Len(s) - Len(pat)) : SubSeq(s, i + 1, i + Len(pat)) = pat

\* str::replace(",", "")
RemoveChar(s, c) == SelectSeq(s, LAMBDA x : x # c)

-----------------------------------------------------------------------------
(* f64 values that come from decimal text *)

RECURSIVE Pow10(_)
Pow10(k) == IF k = 0 THEN 1 ELSE 10 * Pow10(k - 1)

RECURSIVE Normalise(_)
Normalise(d) ==
    IF d.e > 0 /\ d.n % 10 = 0 THEN Normalise([n |-> d.n \div 10, e |-> d.e - 1]) ELSE d

Dec(n, e) == Normalise([n |-> n, e |-> e])
Whole(n) == Dec(n, 0)

DecLt(a, b) == a.n * Pow10(b.e) < b.n * Pow10(a.e)
DecGt(a, b) == DecLt(b, a)

DigitVal(c) == CHOOSE k \in 0..9 : ToString(k) = c

RECURSIVE DigitsToNat(_)
DigitsToNat(s) ==
    IF s = <<>> THEN 0
    ELSE 10 * DigitsToNat(SubSeq(s, 1, Len(s) - 1)) + DigitVal(s[Len(s)])

\* str::parse::<f64>() on text made of ASCII digits and '.', the only text
\* either caller can pass (both remove every other character first): Ok for
\* digits with at most one '.', and at least one digit; Err for "", "." and
\* text with two or more '.'.  Any other character makes it an Err here.
parse_f64(s) ==
    LET dots == {i \in 1..Len(s) : s[i] = "."}
        ds == SelectSeq(s, LAMBDA c : c \in Digits)
    IN  IF \/ \E i \in 1..Len(s) : s[i] \notin Digits \cup {"."}
           \/ Cardinality(dots) > 1
           \/ ds = <<>>
        THEN None
        ELSE Some(Dec(DigitsToNat(ds),
                      IF dots = {} THEN 0 ELSE Len(s) - (CHOOSE i \in dots : TRUE)))

-----------------------------------------------------------------------------
(* Price Text Normalizer *)

POA == <<"P", "O", "A">>

parse_price_string(price_str) ==
    IF trim(price_str) = <<>> THEN None
    ELSE IF to_uppercase(trim(price_str)) = POA THEN None
    ELSE LET price_part == trim(FirstPiece(price_str,
                                {i \in 1..Len(price_str) : price_str[i] = "/"}))
             numeric_str == SelectSeq(price_part, LAMBDA c : c \in Digits \/ c = ".")
             parsed == parse_f64(numeric_str)
         IN  IF numeric_str = <<>> THEN None
             ELSE IF IsSome(parsed) /\ DecGt(Val(parsed), Whole(0)) THEN Some(Val(parsed))
             ELSE None

\* Mutant: the upper bound is accepted.
validate_price_inclusive(amount) == DecGt(amount, Whole(0)) /\ ~ DecGt(amount, Whole(100000))

validate_price(amount) == DecGt(amount, Whole(0)) /\ DecLt(amount, Whole(100000))

-----------------------------------------------------------------------------
(* String literals of the source *)

sDaft == <<"d", "a", "f", "t">>
sMyhome == <<"m", "y", "h", "o", "m", "e">>
sProperty == <<"p", "r", "o", "p", "e", "r", "t", "y">>
sDaftPrefix == <<"d", "a", "f", "t", "_">>
sMyhomePrefix == <<"m", "y", "h", "o", "m", "e", "_">>
sPropertyPrefix_short == <<"p", "r", "o", "p", "_">>    \* mutant: another prefix than the source name
sPropertyPrefix == <<"p", "r", "o", "p", "e", "r", "t", "y", "_">>
sEUR == <<"E", "U", "R">>
sMonth == <<"m", "o", "n", "t", "h">>
sRent == <<"r", "e", "n", "t">>
sActive == <<"a", "c", "t", "i", "v", "e">>
sInactive == <<"i", "n", "a", "c", "t", "i", "v", "e">>
sSquareMeters == <<"s", "q", "u", "a", "r", "e", "_", "m", "e", "t", "e", "r", "s">>
sMonthlySuffix == <<" ", "m", "o", "n", "t", "h", "l", "y">>
sAddressNotAvailable == <<"A", "d", "d", "r", "e", "s", "s", " ", "n", "o", "t", " ", "a", "v", "a", "i", "l", "a", "b", "l", "e">>
sNotSpecified == <<"N", "o", "t", " ", "s", "p", "e", "c", "i", "f", "i", "e", "d">>
sUtcOffset == <<"+", "0", "0", ":", "0", "0">>
sTokyoOffset == <<"+", "0", "9", ":", "0", "0">>

-----------------------------------------------------------------------------
(* Field Accessor: parquet::record::RowAccessor / ListAccessor *)

\* A row, a group and a list are functions from a position to a field; a
\* position outside the domain is an out-of-range index.
FieldAt(row, i) == IF i \in DOMAIN row THEN row[i] ELSE <<"Null">>

get_string(row, i) == IF FieldAt(row, i)[1] = "Str" THEN Some(FieldAt(row, i)[2]) ELSE None
get_long(row, i) == IF FieldAt(row, i)[1] = "Long" THEN Some(FieldAt(row, i)[2]) ELSE None
get_double(row, i) == IF FieldAt(row, i)[1] = "Double" THEN Some(FieldAt(row, i)[2]) ELSE None
get_bool(row, i) == IF FieldAt(row, i)[1] = "Bool" THEN Some(FieldAt(row, i)[2]) ELSE None
get_group(row, i) == IF FieldAt(row, i)[1] = "Group" THEN Some(FieldAt(row, i)[2]) ELSE None
get_list(row, i) == IF FieldAt(row, i)[1] = "List" THEN Some(FieldAt(row, i)[2]) ELSE None

\* Result::unwrap_or_default / unwrap_or
unwrap_or(o, default) == IF IsSome(o) THEN Val(o) ELSE default

\* i64::to_string / Display for i64
RECURSIVE NatToStr(_)
NatToStr(n) == IF n < 10 THEN <<ToString(n)>> ELSE NatToStr(n \div 10) \o <<ToString(n % 10)>>
IntToStr(n) == IF n < 0 THEN <<"-">> \o NatToStr(0 - n) ELSE NatToStr(n)

\* A reading of the wall clock: the instant read and the zone offset it is
\* expressed in.  Utc::now() always carries the offset of UTC; Local::now()
\* carries the offset the host's time zone has at that instant.
UtcNow(instant) == [instant |-> instant, offset |-> sUtcOffset]
LocalNow(instant, offset) == [instant |-> instant, offset |-> offset]

\* The offsets the host's time zone may have (here UTC's and Asia/Tokyo's).
LocalOffsets == {sUtcOffset, sTokyoOffset}

\* DateTime::to_rfc3339 of a clock reading: the instant's digits after "T",
\* then the zone offset.  Distinct readings give distinct texts.
to_rfc3339(t) == <<"T">> \o NatToStr(t.instant) \o t.offset

-----------------------------------------------------------------------------
(* Source Parsers *)

\* StandardizedProperty::from_property_ie: raw is a PropertyIEListing
\* [address, price, id]; t1 and t2 are the two readings of chrono::Local::now().
from_property_ie_price(price) ==
    LET a == trim_end_matches(trim_start_matches(price, "€"), sMonthlySuffix)
        piece == FirstPiece(a, {i \in 1..Len(a) : a[i] \notin Digits \cup {",", "."}})
    IN  unwrap_or(parse_f64(trim(RemoveChar(piece, ","))), Whole(0))

from_property_ie(raw, t1, t2) ==
    [ property_id   |-> sPropertyPrefix \o raw.id,
      source        |-> sProperty,
      source_id     |-> raw.id,
      address       |-> [display_address |-> trim(raw.address)],
      property_type |-> <<>>,
      bedrooms      |-> None,
      bathrooms     |-> None,
      size          |-> None,
      ber_rating    |-> None,
      price         |-> [ amount        |-> from_property_ie_price(raw.price),
                          currency      |-> sEUR,
                          frequency     |-> Some(sMonth),
                          price_changes |-> <<>> ],
      created_date  |-> to_rfc3339(t1),
      updated_date  |-> to_rfc3339(t2),
      listing_type  |-> sRent,
      status        |-> sActive,
      photos        |-> <<>>,
      has_video     |-> FALSE,
      agent         |-> None,
      seo_url       |-> None ]

\* The "property" arm of search_rentals' dispatch: the three columns, each
\* defaulting to the empty text, handed to from_property_ie.
parse_property_row(row, t1, t2) ==
    Some(from_property_ie([ address |-> unwrap_or(get_string(row, 0), <<>>),
                            price   |-> unwrap_or(get_string(row, 1), <<>>),
                            id      |-> unwrap_or(get_string(row, 2), <<>>) ],
                          t1, t2))

\* Mutant: the photo loop without the check for a URL already pushed.
RECURSIVE PushPhotos_nodedup(_, _, _)
PushPhotos_nodedup(photos, photo_list, i) ==
    IF i > Len(photo_list) THEN photos
    ELSE LET url == get_string(photo_list, i)
         IN  IF IsSome(url)
             THEN PushPhotos_nodedup(Append(photos, [url |-> Val(url), is_main |-> FALSE]),
                                     photo_list, i + 1)
             ELSE PushPhotos_nodedup(photos, photo_list, i + 1)

\* The photo loop of parse_myhome_row: push each listed URL not yet present.
RECURSIVE PushPhotos(_, _, _)
PushPhotos(photos, photo_list, i) ==
    IF i > Len(photo_list) THEN photos
    ELSE LET url == get_string(photo_list, i)
         IN  IF IsSome(url) /\ ~ \E k \in 1..Len(photos) : photos[k].url = Val(url)
             THEN PushPhotos(Append(photos, [url |-> Val(url), is_main |-> FALSE]),
                             photo_list, i + 1)
             ELSE PushPhotos(photos, photo_list, i + 1)

myhome_photos(row) ==
    LET main_photo == get_string(row, 61)
        first == IF IsSome(main_photo)
                 THEN <<[url |-> Val(main_photo), is_main |-> TRUE]>>
                 ELSE <<>>
        photo_list == get_list(row, 63)
    IN  IF IsSome(photo_list) THEN PushPhotos(first, Val(photo_list), 1) ELSE first

parse_myhome_row(row) ==
    LET property_id == unwrap_or(get_long(row, 0), 0)
        price_string == unwrap_or(get_string(row, 37), <<>>)
        price_amount == parse_price_string(price_string)
        ber == get_string(row, 49)
        size_meters == get_double(row, 40)
        is_active == unwrap_or(get_bool(row, 28), FALSE)
    IN  IF IsNone(price_amount) THEN None
        ELSE Some(
    [ property_id   |-> sMyhomePrefix \o IntToStr(property_id),
      source        |-> sMyhome,
      source_id     |-> IntToStr(property_id),
      address       |-> [display_address |-> unwrap_or(get_string(row, 42), <<>>)],
      property_type |-> unwrap_or(get_string(row, 46), <<>>),
      bedrooms      |-> get_long(row, 36),
      bathrooms     |-> get_long(row, 48),
      size          |-> IF IsSome(size_meters)
                        THEN Some([value |-> Val(size_meters), unit |-> sSquareMeters])
                        ELSE None,
      ber_rating    |-> IF IsSome(ber) /\ Val(ber) # <<>> THEN ber ELSE None,
      price         |-> [ amount        |-> Val(price_amount),
                          currency      |-> sEUR,
                          frequency     |-> Some(sMonth),
                          price_changes |-> <<>> ],
      created_date  |-> unwrap_or(get_string(row, 11), <<>>),
      updated_date  |-> unwrap_or(get_string(row, 3), <<>>),
      listing_type  |-> sRent,
      status        |-> IF is_active THEN sActive ELSE sInactive,
      photos        |-> myhome_photos(row),
      has_video     |-> unwrap_or(get_bool(row, 31), FALSE),
      agent         |-> Some([ name    |-> unwrap_or(get_string(row, 8), <<>>),
                               phone   |-> unwrap_or(get_string(row, 6), <<>>),
                               email   |-> unwrap_or(get_string(row, 7), <<>>),
                               address |-> unwrap_or(get_string(row, 9), <<>>) ]),
      seo_url       |-> get_string(row, 55) ])

\* The seo_url of parse_daft_row: seoFriendlyPath, else the first brochure url.
daft_seo_url(listing) ==
    LET path == get_string(listing, 23)
        media == get_group(listing, 8)
        brochure_list == IF IsSome(media) THEN get_group(Val(media), 0) ELSE None
        brochure == IF IsSome(brochure_list) THEN get_group(Val(brochure_list), 0) ELSE None
    IN  IF IsSome(path) THEN path
        ELSE IF IsSome(brochure) THEN get_string(Val(brochure), 0) ELSE None

daft_ber_rating(listing) ==
    LET ber_group == get_group(listing, 1)
    IN  IF IsSome(ber_group) THEN get_string(Val(ber_group), 2) ELSE None

\* parse_daft_row: t1 and t2 are the two readings of chrono::Utc::now().
parse_daft_row(row, t1, t2) ==
    LET listing_r == get_group(row, 0)
        listing == Val(listing_r)
        price_string == get_string(listing, 0)
        price_amount == parse_price_string(Val(price_string))
        property_id == get_string(listing, 3)
    IN  IF IsNone(listing_r) THEN None
        ELSE IF IsNone(price_string) THEN None
        ELSE IF IsNone(price_amount) THEN None
        ELSE IF IsNone(property_id) THEN None
        ELSE Some(
    [ property_id   |-> sDaftPrefix \o Val(property_id),
      source        |-> sDaft,
      source_id     |-> Val(property_id),
      address       |-> [display_address |->
                            unwrap_or(get_string(listing, 5), sAddressNotAvailable)],
      property_type |-> unwrap_or(get_string(listing, 2), sNotSpecified),
      bedrooms      |-> None,
      bathrooms     |-> None,
      size          |-> None,
      ber_rating    |-> daft_ber_rating(listing),
      price         |-> [ amount        |-> Val(price_amount),
                          currency      |-> sEUR,
                          frequency     |-> Some(sMonth),
                          price_changes |-> <<>> ],
      created_date  |-> to_rfc3339(t1),
      updated_date  |-> to_rfc3339(t2),
      listing_type  |-> sRent,
      status        |-> sActive,
      photos        |-> <<>>,
      has_video     |-> FALSE,
      agent         |-> None,
      seo_url       |-> daft_seo_url(listing) ])

-----------------------------------------------------------------------------
(* Filter Evaluator *)

\* Mutant: an entity without a bedroom count passes a bedroom criterion.
should_include_property_failopen(property, p) ==
    IF IsSome(p.min_price) /\ DecLt(property.price.amount, Val(p.min_price)) THEN FALSE
    ELSE IF IsSome(p.max_price) /\ DecGt(property.price.amount, Val(p.max_price)) THEN FALSE
    ELSE IF IsSome(p.bedrooms) /\ IsSome(property.bedrooms)
            /\ Val(property.bedrooms) # Val(p.bedrooms) THEN FALSE
    ELSE IF IsSome(p.property_type)
            /\ ~ contains(to_lowercase(property.property_type),
                          to_lowercase(Val(p.property_type))) THEN FALSE
    ELSE IF IsSome(p.ber_rating) /\ IsSome(property.ber_rating)
            /\ ~ contains(to_lowercase(Val(property.ber_rating)),
                          to_lowercase(Val(p.ber_rating))) THEN FALSE
    ELSE IF IsSome(p.ber_rating) /\ IsNone(property.ber_rating) THEN FALSE
    ELSE TRUE

should_include_property(property, p) ==
    IF IsSome(p.min_price) /\ DecLt(property.price.amount, Val(p.min_price)) THEN FALSE
    ELSE IF IsSome(p.max_price) /\ DecGt(property.price.amount, Val(p.max_price)) THEN FALSE
    ELSE IF IsSome(p.bedrooms) /\ IsSome(property.bedrooms)
            /\ Val(property.bedrooms) # Val(p.bedrooms) THEN FALSE
    ELSE IF IsSome(p.bedrooms) /\ IsNone(property.bedrooms) THEN FALSE
    ELSE IF IsSome(p.property_type)
            /\ ~ contains(to_lowercase(property.property_type),
                          to_lowercase(Val(p.property_type))) THEN FALSE
    ELSE IF IsSome(p.ber_rating) /\ IsSome(property.ber_rating)
            /\ ~ contains(to_lowercase(Val(property.ber_rating)),
                          to_lowercase(Val(p.ber_rating))) THEN FALSE
    ELSE IF IsSome(p.ber_rating) /\ IsNone(property.ber_rating) THEN FALSE
    ELSE TRUE

-----------------------------------------------------------------------------
(* Bounds and input sets *)

MaxTextLen == 3      \* length of the enumerated price texts
MaxClock == 1        \* last instant of the ingestion clock
MaxPhotos == 3       \* length of a record's additional-photo list
MaxRows == 2         \* rows read from the snapshots in one search

tEuroMonthly == <<"€", "1", ",", "5", "0", "0", " ", "m", "o", "n", "t", "h", "l", "y">>
tEuroSlashMonth == <<"€", "1", ",", "5", "0", "0", "/", "m", "o", "n", "t", "h">>
t1500 == <<"1", "5", "0", "0">>
tPOA == <<"P", "O", "A">>
tAbc == <<"a", "b", "c">>
tMinus5 == <<"-", "5">>
tPoaLower == <<" ", "p", "o", "a", " ">>
tLeadingSpace == <<" ", "1", "5", "0", "0">>
tFrom == <<"f", "r", "o", "m", " ", "€", "1", ",", "5", "0", "0">>
t100000 == <<"1", "0", "0", "0", "0", "0">>
t99999_99 == <<"9", "9", "9", "9", "9", ".", "9", "9">>
tZero == <<"0">>
tSpaced == <<"€", "1", ",", "5", "0", "0", " ", "/", " ", "m", "o", "n", "t", "h">>
tEmpty == <<>>

NamedPriceTexts ==
    { tEuroMonthly, tEuroSlashMonth, t1500, tPOA,
      tAbc, tMinus5, tPoaLower, tLeadingSpace,
      tFrom, t100000, t99999_99, tZero,
      tSpaced,
      tEmpty }

PriceAlphabet == {"€", "1", "0", ",", ".", "/", " ", "-", "m"}

RECURSIVE TextsUpTo(_, _)
TextsUpTo(alphabet, k) ==
    IF k = 0 THEN {<<>>}
    ELSE LET shorter == TextsUpTo(alphabet, k - 1)
         IN  shorter \cup {Append(s, c) : s \in shorter, c \in alphabet}

PriceTexts == NamedPriceTexts \cup TextsUpTo(PriceAlphabet, MaxTextLen)

Pending == <<"Pending">>

NoParams ==
    [ source |-> None, min_price |-> None, max_price |-> None, bedrooms |-> None,
      property_type |-> None, ber_rating |-> None ]

\* The variables of search_rentals while a single function is applied.
PipelineIdle ==
    /\ params = NoParams
    /\ fs = <<>>
    /\ pc = "idle"
    /\ srcIdx = 0
    /\ rowIdx = 0
    /\ properties = <<>>

-----------------------------------------------------------------------------
(* SpecPrice: the price text normalizer applied to one price text *)

InitPrice ==
    /\ PipelineIdle
    /\ now = 0
    /\ call \in {[fn |-> "idle", arg |-> t, ret |-> Pending] : t \in PriceTexts}

ApplyParsePriceString ==
    /\ call.fn = "idle"
    /\ call' = [fn |-> "parse_price_string", arg |-> call.arg,
                ret |-> parse_price_string(call.arg)]
    /\ UNCHANGED <<params, fs, pc, srcIdx, rowIdx, properties, now>>

ApplyFromPropertyIEPrice ==
    /\ call.fn = "idle"
    /\ call' = [fn |-> "from_property_ie_price", arg |-> call.arg,
                ret |-> Some(from_property_ie_price(call.arg))]
    /\ UNCHANGED <<params, fs, pc, srcIdx, rowIdx, properties, now>>

NextPrice == ApplyParsePriceString \/ ApplyFromPropertyIEPrice

SpecPrice == InitPrice /\ [][NextPrice]_vars

\* C1: parse_price_string returns 1500.0 for "€1,500 monthly", "€1,500/month"
\* and "1500", and None for "", "POA", "abc" and "-5".
C1_PriceExamples ==
    call.fn = "parse_price_string" =>
        /\ call.arg \in {tEuroMonthly, tEuroSlashMonth, t1500} => call.ret = Some(Whole(1500))
        /\ call.arg \in {tEmpty, tPOA, tAbc, tMinus5} => call.ret = None

-----------------------------------------------------------------------------
(* SpecFilter: should_include_property applied to one entity and one criteria set *)

sApartment == <<"A", "p", "a", "r", "t", "m", "e", "n", "t">>
sApartUpper == <<"A", "P", "A", "R", "T">>
sHouse == <<"H", "o", "u", "s", "e">>
sB2 == <<"B", "2">>
sBLower == <<"b">>
sC1 == <<"C", "1">>
sSpecified == <<"s", "p", "e", "c", "i", "f", "i", "e", "d">>
sMainSt == <<"1", " ", "M", "a", "i", "n", " ", "S", "t">>
sTestAddress == <<"T", "e", "s", "t", " ", "A", "d", "d", "r", "e", "s", "s">>
s12345 == <<"1", "2", "3", "4", "5">>
sUrl1 == <<"h", "t", "t", "p", "s", ":", "/", "/", "i", "m", "g", "/", "1">>
sUrl2 == <<"h", "t", "t", "p", "s", ":", "/", "/", "i", "m", "g", "/", "2">>
sDate1 == <<"2", "0", "2", "4", "-", "0", "1", "-", "0", "1">>
sDate2 == <<"2", "0", "2", "4", "-", "0", "2", "-", "0", "2">>
sAgent == <<"A", "g", "e", "n", "t">>
sSeo == <<"/", "f", "o", "r", "-", "r", "e", "n", "t", "/", "7">>
sD9 == <<"D", "9">>
sP3 == <<"P", "3">>

\* A StandardizedProperty with the four attributes the filter reads.
FilterEntity(amount, bedrooms, property_type, ber_rating) ==
    [ property_id   |-> sMyhomePrefix \o <<"7">>,
      source        |-> sMyhome,
      source_id     |-> <<"7">>,
      address       |-> [display_address |-> sMainSt],
      property_type |-> property_type,
      bedrooms      |-> bedrooms,
      bathrooms     |-> None,
      size          |-> None,
      ber_rating    |-> ber_rating,
      price         |-> [ amount        |-> amount,
                          currency      |-> sEUR,
                          frequency     |-> Some(sMonth),
                          price_changes |-> <<>> ],
      created_date  |-> sDate1,
      updated_date  |-> sDate2,
      listing_type  |-> sRent,
      status        |-> sActive,
      photos        |-> <<>>,
      has_video     |-> FALSE,
      agent         |-> None,
      seo_url       |-> None ]

FilterEntities ==
    { FilterEntity(a, b, t, r) :
        a \in {Whole(900), Whole(1000), Whole(1200), Dec(12005, 1), Whole(1500)},
        b \in {None, Some(0), Some(2), Some(3)},
        t \in {<<>>, sApartment, sHouse, sNotSpecified},
        r \in {None, Some(sB2), Some(sC1)} }

FilterParams ==
    { [ source |-> None, min_price |-> lo, max_price |-> hi, bedrooms |-> b,
        property_type |-> t, ber_rating |-> r ] :
        lo \in {None, Some(Whole(1000))},
        hi \in {None, Some(Whole(1200))},
        b \in {None, Some(2), Some(0)},
        t \in {None, Some(sApartUpper), Some(<<>>)},
        r \in {None, Some(sBLower)} }

InitFilter ==
    /\ PipelineIdle
    /\ now = 0
    /\ call \in {[fn |-> "idle", arg |-> [property |-> e, params |-> p], ret |-> Pending] :
                    e \in FilterEntities, p \in FilterParams}

ApplyShouldIncludeProperty ==
    /\ call.fn = "idle"
    /\ call' = [fn |-> "should_include_property", arg |-> call.arg,
                ret |-> should_include_property(call.arg.property, call.arg.params)]
    /\ UNCHANGED <<params, fs, pc, srcIdx, rowIdx, properties, now>>

NextFilter == ApplyShouldIncludeProperty

SpecFilter == InitFilter /\ [][NextFilter]_vars

\* What each criterion asks of an entity, stated on exact decimals and texts.
MinPriceSatisfied(e, lo) == e.price.amount.n * Pow10(lo.e) >= lo.n * Pow10(e.price.amount.e)
MaxPriceSatisfied(e, hi) == e.price.amount.n * Pow10(hi.e) <= hi.n * Pow10(e.price.amount.e)
BedroomsSatisfied(e, b) == e.bedrooms = Some(b)
PropertyTypeSatisfied(e, t) ==
    \E i \in 0..Len(e.property_type) : \E j \in i..Len(e.property_type) :
        to_lowercase(SubSeq(e.property_type, i + 1, j)) = to_lowercase(t)
BerRatingSatisfied(e, r) ==
    /\ IsSome(e.ber_rating)
    /\ \E i \in 0..Len(Val(e.ber_rating)) : \E j \in i..Len(Val(e.ber_rating)) :
          to_lowercase(SubSeq(Val(e.ber_rating), i + 1, j)) = to_lowercase(r)

AllSuppliedSatisfied(e, p) ==
    /\ IsSome(p.min_price) => MinPriceSatisfied(e, Val(p.min_price))
    /\ IsSome(p.max_price) => MaxPriceSatisfied(e, Val(p.max_price))
    /\ IsSome(p.bedrooms) => BedroomsSatisfied(e, Val(p.bedrooms))
    /\ IsSome(p.property_type) => PropertyTypeSatisfied(e, Val(p.property_type))
    /\ IsSome(p.ber_rating) => BerRatingSatisfied(e, Val(p.ber_rating))

Min1000Beds2 ==
    [ source |-> None, min_price |-> Some(Whole(1000)), max_price |-> None,
      bedrooms |-> Some(2), property_type |-> None, ber_rating |-> None ]

\* C2: should_include_property accepts an entity exactly when every supplied
\* criterion is satisfied, an unsupplied criterion imposing nothing; with
\* {min_price: 1000, bedrooms: 2} price 1200 with 2 bedrooms is accepted, no
\* bedroom count is rejected, price 900 is rejected whatever the bedrooms; with
\* no criteria every entity is accepted.
C2_FilterConjunction ==
    call.fn = "should_include_property" =>
        LET e == call.arg.property
            p == call.arg.params
        IN  /\ call.ret = AllSuppliedSatisfied(e, p)
            /\ p = Min1000Beds2 /\ e.price.amount = Whole(1200) /\ e.bedrooms = Some(2)
                   => call.ret = TRUE
            /\ p = Min1000Beds2 /\ e.bedrooms = None => call.ret = FALSE
            /\ p = Min1000Beds2 /\ e.price.amount = Whole(900) => call.ret = FALSE
            /\ p = NoParams => call.ret = TRUE

\* C2 witness: the filter has accepted the 1200 / 2-bedroom entity under
\* {min_price: 1000, bedrooms: 2}.
C2_Witness ==
    /\ call.fn = "should_include_property"
    /\ call.arg.params = Min1000Beds2
    /\ call.arg.property.price.amount = Whole(1200)
    /\ call.arg.property.bedrooms = Some(2)
    /\ call.ret = TRUE

-----------------------------------------------------------------------------
(* Raw records of the three sources *)

Str(s) == <<"Str", s>>
Long(n) == <<"Long", n>>
Null == <<"Null">>

\* A myhome row: flat columns at the positions parse_myhome_row reads.
MyHomeRow(id, price, beds, ptype, ber, active, main, photos) ==
    (0 :> id) @@ (37 :> price) @@ (36 :> beds) @@ (46 :> ptype) @@ (49 :> ber)
    @@ (28 :> active) @@ (61 :> main) @@ (63 :> photos)
    @@ (42 :> Str(sMainSt)) @@ (48 :> Long(1)) @@ (40 :> <<"Double", Dec(755, 1)>>)
    @@ (11 :> Str(sDate1)) @@ (3 :> Str(sDate2)) @@ (55 :> Str(sSeo))
    @@ (8 :> Str(sAgent)) @@ (6 :> Null) @@ (7 :> Null) @@ (9 :> Null)
    @@ (31 :> <<"Bool", TRUE>>)

\* A daft row: one outer group holding the listing's fields.
DaftListing(price, id, ptype, ber) ==
    (0 :> price) @@ (3 :> id) @@ (2 :> ptype) @@ (1 :> ber)
    @@ (5 :> Str(sMainSt)) @@ (23 :> Str(sSeo)) @@ (8 :> Null)
DaftRow(price, id, ptype, ber) == (0 :> <<"Group", DaftListing(price, id, ptype, ber)>>)
DaftRowWithoutListing == (0 :> Null)

DaftBer(rating) == <<"Group", (2 :> rating)>>

\* A property row: address, price, identifier.
PropertyRow(address, price, id) == (0 :> address) @@ (1 :> price) @@ (2 :> id)

RECURSIVE SeqsUpTo(_, _)
SeqsUpTo(S, k) ==
    IF k = 0 THEN {<<>>}
    ELSE LET shorter == SeqsUpTo(S, k - 1)
         IN  shorter \cup {Append(s, x) : s \in shorter, x \in S}

PhotoLists == {Null} \cup {<<"List", l>> : l \in SeqsUpTo({Str(sUrl1), Str(sUrl2), Null}, MaxPhotos)}

MyHomeRows ==
    { MyHomeRow(id, Str(price), Long(2), Str(sApartment), ber, active, Str(sUrl1), Null) :
        id \in {Long(7), Long(0), Long(120), Long(-3), Null, Str(<<"7">>)},
        price \in {tSpaced, tPOA, t100000, tLeadingSpace, tMinus5},
        ber \in {Str(sB2), Str(<<>>), Null},
        active \in {<<"Bool", TRUE>>, <<"Bool", FALSE>>, Null} }
    \cup
    { MyHomeRow(Long(7), price, beds, ptype, Str(sB2), Null, Str(sUrl1), Null) :
        price \in {Null, Str(tSpaced)},
        beds \in {Long(2), Null},
        ptype \in {Str(sApartment), Null} }
    \cup
    { MyHomeRow(Long(7), Str(tSpaced), Long(2), Str(sApartment), Str(sB2), Null, main, photos) :
        main \in {Str(sUrl1), Null, Long(5)},
        photos \in PhotoLists }

DaftRows ==
    { DaftRow(price, id, ptype, ber) :
        price \in {Str(tSpaced), Str(tPOA), Str(t100000), Str(tLeadingSpace), Str(tMinus5), Null},
        id \in {Str(sD9), Null, Long(9)},
        ptype \in {Str(sApartment), Null},
        ber \in {DaftBer(Str(sB2)), DaftBer(Str(<<>>)), DaftBer(Null), Null} }
    \cup {DaftRowWithoutListing}

PropertyRows ==
    { PropertyRow(address, price, id) :
        address \in {Str(sTestAddress), Str(<<" ">> \o sMainSt \o <<" ">>), Null},
        price \in {Str(t) : t \in NamedPriceTexts} \cup {Null},
        id \in {Str(s12345), Str(sP3), Null, Long(3)} }

RowsOf(source) ==
    CASE source = sDaft -> DaftRows
      [] source = sMyhome -> MyHomeRows
      [] source = sProperty -> PropertyRows

\* The `match source` of search_rentals: the parser of the source, or no
\* entity for any other name (`_ => continue`).
parse_row(source, row, t1, t2) ==
    CASE source = sDaft -> parse_daft_row(row, t1, t2)
      [] source = sMyhome -> parse_myhome_row(row)
      [] source = sProperty -> parse_property_row(row, t1, t2)
      [] OTHER -> None

\* The source's parser reads the clock (twice) unless it is myhome's.
ReadsClock(source) == source \in {sDaft, sProperty}

\* What one now() of the source's parser may return.  The wall clock is not
\* monotonic: between two readings it may stand still, advance or be set
\* back, so a reading is any instant of the model; Local::now() (property)
\* also carries any of the host's offsets, Utc::now() (daft) that of UTC.
Readings(source) ==
    CASE source = sDaft -> {UtcNow(t) : t \in 0..MaxClock}
      [] source = sProperty -> {LocalNow(t, offset) : t \in 0..MaxClock, offset \in LocalOffsets}
      [] OTHER -> {UtcNow(now)}

-----------------------------------------------------------------------------
(* SpecParse: one raw record parsed, then parsed again, as the clock runs *)

InitParse ==
    /\ PipelineIdle
    /\ now = 0
    /\ \E source \in {sDaft, sMyhome, sProperty} :
          call \in {[fn |-> "idle", arg |-> [source |-> source, row |-> row],
                     ret |-> Pending, again |-> Pending] : row \in RowsOf(source)}

\* The wall clock changes between two steps of the program: it advances or
\* is set back.
Tick ==
    /\ call.fn \in {"idle", "parsed"}
    /\ now' \in (0..MaxClock) \ {now}
    /\ UNCHANGED <<params, fs, pc, srcIdx, rowIdx, properties, call>>

\* The first reading of a parse: the clock's current instant.
FirstReadings(source) == {t \in Readings(source) : t.instant = now}

ParseRecord ==
    /\ call.fn = "idle"
    /\ \E t1 \in FirstReadings(call.arg.source), t2 \in Readings(call.arg.source) :
          /\ call' = [call EXCEPT !.fn = "parsed",
                                  !.ret = parse_row(call.arg.source, call.arg.row, t1, t2)]
          /\ now' = t2.instant
    /\ UNCHANGED <<params, fs, pc, srcIdx, rowIdx, properties>>

ParseRecordAgain ==
    /\ call.fn = "parsed"
    /\ \E t1 \in FirstReadings(call.arg.source), t2 \in Readings(call.arg.source) :
          /\ call' = [call EXCEPT !.fn = "reparsed",
                                  !.again = parse_row(call.arg.source, call.arg.row, t1, t2)]
          /\ now' = t2.instant
    /\ UNCHANGED <<params, fs, pc, srcIdx, rowIdx, properties>>

NextParse == Tick \/ ParseRecord \/ ParseRecordAgain

SpecParse == InitParse /\ [][NextParse]_vars

\* The field of a raw record that holds its price text and its identifier.
PriceField(source, row) ==
    CASE source = sDaft ->
            IF IsSome(get_group(row, 0)) THEN FieldAt(Val(get_group(row, 0)), 0) ELSE Null
      [] source = sMyhome -> FieldAt(row, 37)
      [] source = sProperty -> FieldAt(row, 1)
      [] OTHER -> Null
IdentifierField(source, row) ==
    CASE source = sDaft ->
            IF IsSome(get_group(row, 0)) THEN FieldAt(Val(get_group(row, 0)), 3) ELSE Null
      [] source = sMyhome -> FieldAt(row, 0)
      [] source = sProperty -> FieldAt(row, 2)
      [] OTHER -> Null
HasIdentifier(source, row) ==
    IdentifierField(source, row)[1] = (IF source = sMyhome THEN "Long" ELSE "Str")

\* C6: for every source and every raw price text t, the record yields an
\* entity if and only if parse_price_string(t) returns a value, and then the
\* entity's price.amount is that value (records that carry their identifier).
C6_AllParsersUseNormalizer ==
    /\ call.fn = "parsed"
    /\ HasIdentifier(call.arg.source, call.arg.row)
    /\ PriceField(call.arg.source, call.arg.row)[1] = "Str"
    => LET normalised == parse_price_string(PriceField(call.arg.source, call.arg.row)[2])
       IN  /\ IsSome(call.ret) <=> IsSome(normalised)
           /\ IsSome(call.ret) => Val(call.ret).price.amount = Val(normalised)

\* C7: parsing the same raw record twice, at two moments of the ingestion
\* clock, yields two entities equal in every field, created_date and
\* updated_date included.
C7_ParseIdempotent ==
    call.fn = "reparsed" => call.again = call.ret

TestListingRow == PropertyRow(Str(sTestAddress), Str(tEuroMonthly), Str(s12345))

\* C8: every parsed entity has property_id = source, "_", source_id with the
\* parser's own source name; the property record with identifier "12345",
\* price "€1,500 monthly" and address "Test Address" gives "property_12345",
\* 1500.0 and "property".
C8_PropertyIdFormat ==
    \A r \in {x \in {call.ret, call.again} : IsSome(x)} :
        LET e == Val(r)
        IN  /\ e.property_id = e.source \o <<"_">> \o e.source_id
            /\ e.source = call.arg.source
            /\ call.arg.row = TestListingRow /\ call.arg.source = sProperty =>
                  /\ e.property_id = <<"p", "r", "o", "p", "e", "r", "t", "y", "_",
                                       "1", "2", "3", "4", "5">>
                  /\ e.price.amount = Whole(1500)
                  /\ e.source = <<"p", "r", "o", "p", "e", "r", "t", "y">>
                  /\ e.address.display_address = sTestAddress

\* C8 witness: the test listing has been parsed into "property_12345".
C8_Witness ==
    /\ call.fn = "parsed"
    /\ call.arg.source = sProperty
    /\ call.arg.row = TestListingRow
    /\ IsSome(call.ret)
    /\ Val(call.ret).property_id = sProperty \o <<"_">> \o s12345

\* The URLs a myhome row offers, in encounter order: the primary photo, then
\* the text entries of the additional-photo list.
RECURSIVE TextsOf(_)
TextsOf(fields) ==
    IF fields = <<>> THEN <<>>
    ELSE (IF Head(fields)[1] = "Str" THEN <<Head(fields)[2]>> ELSE <<>>) \o TextsOf(Tail(fields))
OfferedUrls(row) ==
    (IF FieldAt(row, 61)[1] = "Str" THEN <<FieldAt(row, 61)[2]>> ELSE <<>>)
    \o (IF FieldAt(row, 63)[1] = "List" THEN TextsOf(FieldAt(row, 63)[2]) ELSE <<>>)
FirstPosition(urls, u) == CHOOSE k \in 1..Len(urls) : urls[k] = u /\ \A j \in 1..(k - 1) : urls[j] # u

\* C9: the photos of a myhome entity hold no URL twice and at most one main
\* entry; a present primary photo is first and main, and the other URLs follow
\* in first-encounter order.
C9_PhotosDeduplicated ==
    call.fn = "parsed" /\ call.arg.source = sMyhome /\ IsSome(call.ret) =>
        LET photos == Val(call.ret).photos
            offered == OfferedUrls(call.arg.row)
        IN  /\ \A i, j \in 1..Len(photos) : i # j => photos[i].url # photos[j].url
            /\ Cardinality({i \in 1..Len(photos) : photos[i].is_main}) <= 1
            /\ {photos[i].url : i \in 1..Len(photos)} = {offered[k] : k \in 1..Len(offered)}
            /\ \A i, j \in 1..Len(photos) :
                  i < j => FirstPosition(offered, photos[i].url) < FirstPosition(offered, photos[j].url)
            /\ FieldAt(call.arg.row, 61)[1] = "Str" =>
                  /\ photos # <<>>
                  /\ photos[1] = [url |-> FieldAt(call.arg.row, 61)[2], is_main |-> TRUE]
                  /\ \A i \in 2..Len(photos) : ~ photos[i].is_main

\* C9 witness: a row whose list repeats a URL and repeats the primary photo
\* has been parsed into the primary photo followed by the other URL once.
C9_Witness ==
    /\ call.fn = "parsed"
    /\ call.arg.source = sMyhome
    /\ FieldAt(call.arg.row, 61) = Str(sUrl1)
    /\ FieldAt(call.arg.row, 63) = <<"List", <<Str(sUrl2), Str(sUrl1), Str(sUrl2)>>>>
    /\ IsSome(call.ret)
    /\ Val(call.ret).photos = <<[url |-> sUrl1, is_main |-> TRUE], [url |-> sUrl2, is_main |-> FALSE]>>

-----------------------------------------------------------------------------
(* Spec: the search_rentals pipeline *)

sDaftUpper == to_uppercase(sDaft)

\* `sources` of search_rentals: the requested name as given, or all three.
sources(p) == IF IsSome(p.source) THEN <<Val(p.source)>> ELSE <<sDaft, sMyhome, sProperty>>

\* The guard at the head of the loop body: the source is the requested one.
Requested(p, source) ==
    IsSome(p.source) => to_lowercase(Val(p.source)) = to_lowercase(source)

Unknown == <<"Unknown">>          \* not looked up yet
Missing == <<"Missing">>          \* find_latest_parquet returned None
Unreadable == <<"Unreadable">>    \* File::open, the reader or the row iterator failed
Rows(read) == <<"Rows", read>>    \* opened; `read` is what the iterator has yielded

\* The rows a snapshot of the source may hold.  A directory name in another
\* letter case resolves, where the file system ignores case, to the
\* provider's own snapshot.
SnapshotRows(source) ==
    CASE to_lowercase(source) = sDaft ->
            { DaftRow(Str(tSpaced), Str(sD9), Str(sApartment), DaftBer(Str(sB2))),
              DaftRow(Str(t1500), Str(sD9), Null, Null),
              DaftRow(Str(tSpaced), Null, Str(sApartment), Null),
              DaftRow(Str(t100000), Str(sD9), Str(sApartment), Null) }
      [] to_lowercase(source) = sMyhome ->
            { MyHomeRow(Long(7), Str(tSpaced), Long(2), Str(sApartment), Str(sB2),
                        <<"Bool", TRUE>>, Str(sUrl1), Null),
              MyHomeRow(Null, Str(t99999_99), Null, Null, Null, Null, Null, Null),
              MyHomeRow(Long(120), Str(tPOA), Long(2), Str(sHouse), Str(<<>>),
                        <<"Bool", FALSE>>, Null, Null) }
      [] to_lowercase(source) = sProperty ->
            { PropertyRow(Str(sMainSt), Str(tLeadingSpace), Str(sP3)),
              PropertyRow(Null, Str(t99999_99), Null) }

\* What the row iterator yields: a row, or a read error.
RowResults(source) == {None} \cup {Some(row) : row \in SnapshotRows(source)}

SearchParamSets ==
    { [NoParams EXCEPT !.max_price = Some(Whole(1500))],
      [NoParams EXCEPT !.property_type = Some(sSpecified), !.max_price = Some(Whole(1500))],
      [NoParams EXCEPT !.source = Some(sMyhome)],
      [NoParams EXCEPT !.source = Some(sDaftUpper)],
      [NoParams EXCEPT !.source = Some(sProperty)] }

Init ==
    /\ params \in SearchParamSets
    /\ fs = [i \in 1..Len(sources(params)) |-> Unknown]
    /\ pc = "source"
    /\ srcIdx = 1
    /\ rowIdx = 1
    /\ properties = <<>>
    /\ now = 0
    /\ call = [fn |-> "search_rentals"]

RowsRead == Cardinality({<<i, k>> \in (DOMAIN fs) \X (1..MaxRows) :
                            fs[i][1] = "Rows" /\ k <= Len(fs[i][2])})

\* Mutant: a missing snapshot ends the whole search.
NoSnapshot_returns ==
    /\ pc = "source"
    /\ srcIdx <= Len(sources(params))
    /\ fs' = [fs EXCEPT ![srcIdx] = Missing]
    /\ pc' = "done"
    /\ UNCHANGED <<params, srcIdx, rowIdx, properties, now, call>>

\* for source in sources: no snapshot is found (or the source is not the
\* requested one); warn and go on to the next source.
NoSnapshot ==
    /\ pc = "source"
    /\ srcIdx <= Len(sources(params))
    /\ fs' = [fs EXCEPT ![srcIdx] = Missing]
    /\ srcIdx' = srcIdx + 1
    /\ UNCHANGED <<params, pc, rowIdx, properties, now, call>>

\* A snapshot is found but cannot be opened or read; log and go on.
SnapshotUnreadable ==
    /\ pc = "source"
    /\ srcIdx <= Len(sources(params))
    /\ Requested(params, sources(params)[srcIdx])
    /\ fs' = [fs EXCEPT ![srcIdx] = Unreadable]
    /\ srcIdx' = srcIdx + 1
    /\ UNCHANGED <<params, pc, rowIdx, properties, now, call>>

\* A snapshot is found and opened: iterate over its rows.
OpenSnapshot ==
    /\ pc = "source"
    /\ srcIdx <= Len(sources(params))
    /\ Requested(params, sources(params)[srcIdx])
    /\ fs' = [fs EXCEPT ![srcIdx] = Rows(<<>>)]
    /\ pc' = "rows"
    /\ rowIdx' = 1
    /\ UNCHANGED <<params, srcIdx, properties, now, call>>

\* The entities one row result adds to the output: the body of the row loop.
RowOutcome(p, source, row_result, t1, t2) ==
    IF IsNone(row_result) THEN <<>>
    ELSE LET property == parse_row(source, Val(row_result), t1, t2)
         IN  IF IsNone(property) THEN <<>>
             ELSE IF ~ validate_price(Val(property).price.amount) THEN <<>>
             ELSE IF should_include_property(Val(property), p) THEN <<Val(property)>>
             ELSE <<>>

\* The readings a now() of a row's parse may return when the source's parser
\* reads the clock; a myhome row or a read error reads no clock.
ClockReadings(source, row_result) ==
    IF ReadsClock(source) /\ IsSome(row_result) THEN Readings(source) ELSE {UtcNow(now)}

\* The history entry of a row: what the iterator yielded and, when the row's
\* entity was pushed, the two readings its dates come from.  The dates of an
\* entity that is dropped are not kept anywhere, nor are its readings.
Entry(row_result, outcome, t1, t2) ==
    [ result |-> row_result,
      t1 |-> IF outcome = <<>> THEN UtcNow(now) ELSE t1,
      t2 |-> IF outcome = <<>> THEN UtcNow(now) ELSE t2 ]

\* ProcessRow putting the row's entity in front of the output.
ProcessRow_prepend ==
    /\ pc = "rows"
    /\ RowsRead < MaxRows
    /\ \E row_result \in RowResults(sources(params)[srcIdx]) :
       \E t1 \in ClockReadings(sources(params)[srcIdx], row_result) :
       \E t2 \in ClockReadings(sources(params)[srcIdx], row_result) :
          LET outcome == RowOutcome(params, sources(params)[srcIdx], row_result, t1, t2)
          IN  /\ fs' = [fs EXCEPT ![srcIdx] =
                            Rows(Append(fs[srcIdx][2], Entry(row_result, outcome, t1, t2)))]
              /\ properties' = outcome \o properties
    /\ rowIdx' = rowIdx + 1
    /\ UNCHANGED <<params, pc, srcIdx, now, call>>

\* for row_result in iter: parse, validate, filter, push.
ProcessRow ==
    /\ pc = "rows"
    /\ RowsRead < MaxRows
    /\ \E row_result \in RowResults(sources(params)[srcIdx]) :
       \E t1 \in ClockReadings(sources(params)[srcIdx], row_result) :
       \E t2 \in ClockReadings(sources(params)[srcIdx], row_result) :
          LET outcome == RowOutcome(params, sources(params)[srcIdx], row_result, t1, t2)
          IN  /\ fs' = [fs EXCEPT ![srcIdx] =
                            Rows(Append(fs[srcIdx][2], Entry(row_result, outcome, t1, t2)))]
              /\ properties' = properties \o outcome
    /\ rowIdx' = rowIdx + 1
    /\ UNCHANGED <<params, pc, srcIdx, now, call>>

\* The iterator is exhausted: on to the next source.
EndOfRows ==
    /\ pc = "rows"
    /\ pc' = "source"
    /\ srcIdx' = srcIdx + 1
    /\ UNCHANGED <<params, fs, rowIdx, properties, now, call>>

\* Every source has been processed: Json(properties) is returned.
Return ==
    /\ pc = "source"
    /\ srcIdx > Len(sources(params))
    /\ pc' = "done"
    /\ UNCHANGED <<params, fs, srcIdx, rowIdx, properties, now, call>>

Next == NoSnapshot \/ SnapshotUnreadable \/ OpenSnapshot \/ ProcessRow \/ EndOfRows \/ Return

Spec == Init /\ [][Next]_vars

-----------------------------------------------------------------------------
(* Properties of the pipeline *)

\* The rows read so far, as <<source index, position>>, that were read without error.
RecordedRows ==
    {ik \in (DOMAIN fs) \X (1..MaxRows) :
        /\ fs[ik[1]][1] = "Rows"
        /\ ik[2] <= Len(fs[ik[1]][2])
        /\ IsSome(fs[ik[1]][2][ik[2]].result)}
SourceOf(ik) == sources(params)[ik[1]]
RowOf(ik) == Val(fs[ik[1]][2][ik[2]].result)
EntityOf(ik) ==
    parse_row(SourceOf(ik), RowOf(ik), fs[ik[1]][2][ik[2]].t1, fs[ik[1]][2][ik[2]].t2)
InOutput(e) == \E j \in 1..Len(properties) : properties[j] = e
Yielded(ik) == IsSome(EntityOf(ik)) /\ InOutput(Val(EntityOf(ik)))

\* The raw record holds no value for the attribute a criterion targets.
LacksAttribute(source, row, criterion) ==
    CASE source = sMyhome ->
            FieldAt(row, CASE criterion = "bedrooms" -> 36
                           [] criterion = "property_type" -> 46
                           [] criterion = "ber_rating" -> 49)[1]
                # (IF criterion = "bedrooms" THEN "Long" ELSE "Str")
      [] source = sDaft ->
            CASE criterion = "bedrooms" -> TRUE
              [] criterion = "property_type" ->
                    IsNone(get_group(row, 0)) \/ FieldAt(Val(get_group(row, 0)), 2)[1] # "Str"
              [] criterion = "ber_rating" ->
                    \/ IsNone(get_group(row, 0))
                    \/ IsNone(get_group(Val(get_group(row, 0)), 1))
                    \/ FieldAt(Val(get_group(Val(get_group(row, 0)), 1)), 2)[1] # "Str"
      [] OTHER -> TRUE

\* C3: the filter is fail-closed: a record whose source data lacks the
\* attribute targeted by a supplied criterion (bedrooms, property_type,
\* ber_rating) never appears in the search output.
C3_FailClosed ==
    \A ik \in RecordedRows : \A criterion \in {"bedrooms", "property_type", "ber_rating"} :
        IsSome(params[criterion]) /\ LacksAttribute(SourceOf(ik), RowOf(ik), criterion)
            => ~ Yielded(ik)

StrictlyInside(a) == a.n > 0 /\ a.n < 100000 * Pow10(a.e)

BoundaryAmounts ==
    {Dec(n, e) : n \in {0, 1, 99999, 100000, 100001, 9999999, 10000000, 10000001}, e \in 0..2}

\* validate_price against the open interval on amounts around both ends.
ValidatePriceExact ==
    /\ \A a \in BoundaryAmounts : validate_price(a) <=> StrictlyInside(a)
    /\ ~ validate_price(Whole(0)) /\ ~ validate_price(Whole(100000))

\* C4: validate_price accepts exactly the amounts strictly between 0 and
\* 100000, and every entity in the output of search_rentals has such an
\* amount: a record with any other amount is dropped.
C4_PriceStrictlyInside ==
    /\ ValidatePriceExact
    /\ \A j \in 1..Len(properties) : StrictlyInside(properties[j].price.amount)

\* C4 witness: a search has ended that read a record priced 100000 and a
\* record priced 0.0, and output neither.
C4_Witness ==
    /\ pc = "done"
    /\ \E ik \in RecordedRows :
          IsSome(EntityOf(ik)) /\ Val(EntityOf(ik)).price.amount = Whole(100000)
    /\ \E ik \in RecordedRows :
          IsSome(EntityOf(ik)) /\ Val(EntityOf(ik)).price.amount = Whole(0)
    /\ properties = <<>>

\* C5: a raw record whose native identifier is absent or of the wrong type
\* is skipped: no entity built from it appears in the output.
C5_NoIdentifierNoEntity ==
    \A ik \in RecordedRows : ~ HasIdentifier(SourceOf(ik), RowOf(ik)) => ~ Yielded(ik)

\* What the snapshot of source i contributes to a search for that source alone.
RECURSIVE Outcomes(_, _, _)
Outcomes(p, source, read) ==
    IF read = <<>> THEN <<>>
    ELSE RowOutcome(p, source, Head(read).result, Head(read).t1, Head(read).t2)
         \o Outcomes(p, source, Tail(read))
OwnContribution(i) ==
    IF fs[i][1] = "Rows"
    THEN Outcomes([params EXCEPT !.source = Some(sources(params)[i])], sources(params)[i], fs[i][2])
    ELSE <<>>
RECURSIVE Contributions(_)
Contributions(i) == IF i = 0 THEN <<>> ELSE Contributions(i - 1) \o OwnContribution(i)

\* C10: a source whose snapshot is missing or unreadable does not stop the
\* search: every other requested source is still looked up, the search ends,
\* and the result is exactly what the sources with a snapshot contribute on
\* their own (the empty sequence when none has a snapshot).
C10_MissingSnapshotTolerated ==
    /\ pc # "done" =>
          ENABLED (Return \/ EndOfRows \/ NoSnapshot \/ SnapshotUnreadable
                   \/ OpenSnapshot \/ ProcessRow)
    /\ pc = "done" =>
          /\ \A i \in DOMAIN fs : fs[i] # Unknown
          /\ properties = Contributions(Len(fs))
          /\ (\A i \in DOMAIN fs : fs[i] \in {Missing, Unreadable}) => properties = <<>>

\* C10 witness: a search over all sources has ended with the first snapshot
\* missing and the last one unreadable, and the entities of the source
\* between them returned.
C10_Witness ==
    /\ pc = "done"
    /\ Len(fs) = 3
    /\ fs[1] = Missing
    /\ fs[2][1] = "Rows"
    /\ fs[3] = Unreadable
    /\ properties # <<>>
    /\ \A j \in 1..Len(properties) : properties[j].source = sMyhome

\* What row k of source i adds to the output: its entity when the row was
\* read without error, its parser built an entity, the entity's amount is
\* valid and the entity satisfies the filter; nothing otherwise.
KeptOf(i, k) ==
    LET entry == fs[i][2][k]
    IN  IF IsNone(entry.result) THEN <<>>
        ELSE LET property == parse_row(sources(params)[i], Val(entry.result), entry.t1, entry.t2)
             IN  IF /\ IsSome(property)
                    /\ validate_price(Val(property).price.amount)
                    /\ should_include_property(Val(property), params)
                 THEN <<Val(property)>>
                 ELSE <<>>

\* The entities of the passing rows from row k of source i on, source by
\* source and within a source in stream order.
RECURSIVE KeptFrom(_, _)
KeptFrom(i, k) ==
    IF i > Len(fs) THEN <<>>
    ELSE IF fs[i][1] # "Rows" \/ k > Len(fs[i][2]) THEN KeptFrom(i + 1, 1)
    ELSE KeptOf(i, k) \o KeptFrom(i, k + 1)

SourceRank(source) ==
    CASE source = sDaft -> 1 [] source = sMyhome -> 2 [] source = sProperty -> 3

\* C11: record-level outcomes are independent and order is preserved: when
\* the search has ended the output is exactly the entities of the rows read
\* that parse, have a valid price and pass the filter, source by source in
\* the order daft, myhome, property and within a source in stream order; a
\* row that fails to parse, has an invalid price, is filtered out or raises
\* a read error adds nothing, is consumed, and the next row of the same
\* source can still be processed.
C11_RecordsIndependentInOrder ==
    /\ pc = "done" => properties = KeptFrom(1, 1)
    /\ IsNone(params.source) => sources(params) = <<sDaft, sMyhome, sProperty>>
    /\ \A j1, j2 \in 1..Len(properties) :
          j1 < j2 => SourceRank(properties[j1].source) <= SourceRank(properties[j2].source)
    /\ pc = "rows" =>
          /\ rowIdx = Len(fs[srcIdx][2]) + 1
          /\ RowsRead < MaxRows => ENABLED ProcessRow

\* C11 witness: a search has ended in which the first row of the first
\* source raised a read error and the second row of that source was output.
C11_Witness ==
    /\ pc = "done"
    /\ fs[1][1] = "Rows"
    /\ Len(fs[1][2]) = 2
    /\ IsNone(fs[1][2][1].result)
    /\ KeptOf(1, 2) # <<>>
    /\ properties = KeptOf(1, 2)

\* What a search for the lower-case provider name returns over the rows that
\* were read from the snapshot of the single requested source.
LowerCaseSearchOutput ==
    IF fs[1][1] = "Rows"
    THEN Outcomes([params EXCEPT !.source = Some(to_lowercase(Val(params.source)))],
                  to_lowercase(Val(params.source)), fs[1][2])
    ELSE <<>>

\* C12: the source criterion is case-insensitive: a search whose source is
\* given in another letter case ("DAFT") returns, for the same snapshot
\* contents, the entities the search with the lower-case provider name returns.
C12_SourceCaseInsensitive ==
    pc = "done" /\ IsSome(params.source) /\ Val(params.source) # to_lowercase(Val(params.source))
        => properties = LowerCaseSearchOutput

\* The activity flag of a raw record: the IsActive column of a myhome row;
\* daft and property records carry none.
ActivityFlag(source, row) ==
    CASE source = sMyhome -> FieldAt(row, 28)
      [] OTHER -> Null

\* C13: an entity's status is "inactive" only when the record's activity flag
\* is present and false; when the flag is absent or of the wrong type the
\* status is "active".
C13_InactiveOnlyWhenFlagFalse ==
    call.fn = "parsed" /\ IsSome(call.ret) =>
        /\ Val(call.ret).status = sInactive
              => ActivityFlag(call.arg.source, call.arg.row) = <<"Bool", FALSE>>
        /\ ActivityFlag(call.arg.source, call.arg.row)[1] # "Bool"
              => Val(call.ret).status = sActive

\* C14: no parser produces an entity whose ber_rating is present with the
\* empty string: an empty energy-rating text is normalized to absent.
C14_NoEmptyBerRating ==
    call.fn = "parsed" /\ IsSome(call.ret) => Val(call.ret).ber_rating # Some(<<>>)

-----------------------------------------------------------------------------
(* find_latest_parquet: the latest snapshot under processed/<source> *)

\* A directory entry: its path below processed/<source> as a sequence of
\* names, whether it is a directory, and its modification time (None when the
\* metadata cannot be read).
Dir(path) == [path |-> path, dir |-> TRUE, modified |-> Some(0)]
File(path, modified) == [path |-> path, dir |-> FALSE, modified |-> modified]

\* str::parse::<i32>(): an optional sign, then one or more ASCII digits whose
\* value fits an i32; anything else is an Err.
parse_i32(s) ==
    LET signed == s # <<>> /\ Head(s) \in {"+", "-"}
        negative == s # <<>> /\ Head(s) = "-"
        ds == IF signed THEN Tail(s) ELSE s
        significant == trim_start_matches(ds, "0")
        hi == IF significant = <<>> THEN 0
              ELSE DigitsToNat(SubSeq(significant, 1, Len(significant) - 1))
        last == IF significant = <<>> THEN 0 ELSE DigitVal(significant[Len(significant)])
    IN  IF ds = <<>> \/ \E i \in 1..Len(ds) : ds[i] \notin Digits THEN None
        ELSE IF Len(significant) > 10 THEN None
        ELSE IF /\ Len(significant) = 10
                /\ \/ hi > 214748364
                   \/ hi = 214748364 /\ last > (IF negative THEN 8 ELSE 7)
             THEN None
        ELSE Some(IF negative THEN (0 - 10 * hi) - last ELSE 10 * hi + last)

\* Path::file_name and Path::extension: the last name of the path, and the
\* text after its last '.', absent when there is no '.' or the only one
\* starts the name.
file_name(e) == e.path[Len(e.path)]
extension(e) ==
    LET name == file_name(e)
        dots == {i \in 1..Len(name) : name[i] = "."}
        last == CHOOSE i \in dots : \A j \in dots : j <= i
    IN  IF dots = {} \/ dots = {1} THEN None
        ELSE Some(SubSeq(name, last + 1, Len(name)))

\* fs::read_dir(path).ok(): the entries directly below a directory, None when
\* the path does not exist or is not a directory.
read_dir(tree, path) ==
    IF \E e \in tree : e.path = path /\ e.dir
    THEN Some({e \in tree : Len(e.path) = Len(path) + 1 /\ SubSeq(e.path, 1, Len(path)) = path})
    ELSE None

\* The key of the parquet files: Option<SystemTime>, where None is less than
\* every Some.
ModifiedKey(e) == IF IsSome(e.modified) THEN Val(e.modified) ELSE -1

\* Iterator::max_by_key over <<key, entry>> pairs: the last entry with the
\* greatest key.  read_dir yields the entries in an unspecified order, so any
\* entry with the greatest key can be the one returned; the empty iterator
\* gives None.
max_by_key(keyed) ==
    IF keyed = {} THEN {None}
    ELSE {Some(x[2]) : x \in {x \in keyed : \A y \in keyed : y[1] <= x[1]}}

\* One level of the walk: read_dir(path).ok()?, keep the entries whose name
\* parses as an i32 as (number, path), max_by_key on the number.
latest_numbered(tree, path) ==
    IF IsNone(read_dir(tree, path)) THEN {None}
    ELSE max_by_key({<<Val(parse_i32(file_name(e))), e>> :
                        e \in {e \in Val(read_dir(tree, path)) : IsSome(parse_i32(file_name(e)))}})

\* The last level: read_dir(latest_day).ok()?, keep the paths with extension
\* "parquet", max_by_key on the modification time.
latest_snapshot(tree, path) ==
    IF IsNone(read_dir(tree, path)) THEN {None}
    ELSE {IF IsSome(r) THEN Some(Val(r).path) ELSE None :
            r \in max_by_key({<<ModifiedKey(e), e>> :
                                 e \in {e \in Val(read_dir(tree, path)) :
                                           extension(e) = Some(<<"p", "a", "r", "q", "u", "e", "t">>)}})}

\* find_latest_parquet on the directory tree below base_path/processed/source:
\* the values the call can return.  Each `?` returns None from the function.
find_latest_parquet(tree) ==
    UNION { IF IsNone(latest_year) THEN {None}
            ELSE UNION { IF IsNone(latest_month) THEN {None}
                         ELSE UNION { IF IsNone(latest_day) THEN {None}
                                      ELSE latest_snapshot(tree, Val(latest_day).path) :
                                      latest_day \in latest_numbered(tree, Val(latest_month).path) } :
                         latest_month \in latest_numbered(tree, Val(latest_year).path) } :
            latest_year \in latest_numbered(tree, <<>>) }

\* Days of the latest month that the trees of the model may hold.
MaxDay == 2

sOldParquet == <<"o", "l", "d", ".", "p", "a", "r", "q", "u", "e", "t">>
sNewParquet == <<"n", "e", "w", ".", "p", "a", "r", "q", "u", "e", "t">>
sNotesCsv == <<"n", "o", "t", "e", "s", ".", "c", "s", "v">>
s2023 == <<"2", "0", "2", "3">>
s2024 == <<"2", "0", "2", "4">>
s2025 == <<"2", "0", "2", "5">>
sTmp == <<"t", "m", "p">>

\* What a day directory may hold: nothing, one snapshot, an older and a newer
\* one, two of the same modification time, one whose metadata cannot be
\* read beside a readable one, or only a file that is not a snapshot.
FileSetsIn(day) ==
    { {},
      {File(day \o <<sOldParquet>>, Some(1))},
      {File(day \o <<sOldParquet>>, Some(1)), File(day \o <<sNewParquet>>, Some(2))},
      {File(day \o <<sOldParquet>>, Some(1)), File(day \o <<sNewParquet>>, Some(1))},
      {File(day \o <<sOldParquet>>, Some(1)), File(day \o <<sNewParquet>>, None)},
      {File(day \o <<sNotesCsv>>, Some(2))} }

\* A directory that is absent, or present with one of the given contents.
Optional(path, contents) == {{}} \cup {{Dir(path)} \cup c : c \in contents}

DayTrees(day) == Optional(day, FileSetsIn(day))

RECURSIVE DayCombos(_, _)
DayCombos(month, k) ==
    IF k = 0 THEN {{}}
    ELSE {a \cup b : a \in DayCombos(month, k - 1), b \in DayTrees(month \o <<NatToStr(k)>>)}

\* The trees below processed/<source>: year 2023 with month 12 and day 31;
\* year 2024 with month 9 (day 30) and month 10 (days 1..MaxDay); possibly a
\* directory "tmp" holding a snapshot and a regular file named "2025"; every
\* directory may be absent or empty.  The source directory itself may be missing.
SourceTrees ==
    {{}} \cup
    { {Dir(<<>>)} \cup y23 \cup y24 \cup other \cup stray :
        y23 \in Optional(<<s2023>>,
                    Optional(<<s2023, <<"1", "2">>>>, DayTrees(<<s2023, <<"1", "2">>, <<"3", "1">>>>))),
        y24 \in Optional(<<s2024>>,
                    {m9 \cup m10 :
                        m9 \in Optional(<<s2024, <<"9">>>>, DayTrees(<<s2024, <<"9">>, <<"3", "0">>>>)),
                        m10 \in Optional(<<s2024, <<"1", "0">>>>, DayCombos(<<s2024, <<"1", "0">>>>, MaxDay))}),
        other \in {{}, {Dir(<<sTmp>>), File(<<sTmp, sNewParquet>>, Some(2))}},
        stray \in {{}, {File(<<s2025>>, Some(2))}} }

InitLatest ==
    /\ PipelineIdle
    /\ now = 0
    /\ call \in {[fn |-> "idle", arg |-> tree, ret |-> Pending] : tree \in SourceTrees}

ApplyFindLatestParquet ==
    /\ call.fn = "idle"
    /\ \E ret \in find_latest_parquet(call.arg) :
          call' = [fn |-> "find_latest_parquet", arg |-> call.arg, ret |-> ret]
    /\ UNCHANGED <<params, fs, pc, srcIdx, rowIdx, properties, now>>

NextLatest == ApplyFindLatestParquet

SpecLatest == InitLatest /\ [][NextLatest]_vars

\* The snapshot files of a tree: the files with extension "parquet" in a day
\* directory, all three directory names being numbers.
Snapshots(tree) ==
    {e \in tree :
        /\ ~ e.dir
        /\ Len(e.path) = 4
        /\ extension(e) = Some(<<"p", "a", "r", "q", "u", "e", "t">>)
        /\ \A i \in 1..3 : IsSome(parse_i32(e.path[i]))}
DateOf(e) == [i \in 1..3 |-> Val(parse_i32(e.path[i]))]
DateLeq(a, b) ==
    \/ a[1] < b[1]
    \/ a[1] = b[1] /\ a[2] < b[2]
    \/ a[1] = b[1] /\ a[2] = b[2] /\ a[3] <= b[3]
MostRecent(tree) ==
    {e \in Snapshots(tree) :
        \A f \in Snapshots(tree) :
            /\ DateLeq(DateOf(f), DateOf(e))
            /\ DateOf(f) = DateOf(e) => ModifiedKey(f) <= ModifiedKey(e)}

\* C15: find_latest_parquet returns the most recently dated snapshot: a
\* snapshot file of the greatest (year, month, day), of the latest
\* modification time within that day, and it returns None only when the tree
\* holds no snapshot file at all.
C15_LatestSnapshotFound ==
    call.fn = "find_latest_parquet" =>
        IF Snapshots(call.arg) = {} THEN call.ret = None
        ELSE IsSome(call.ret) /\ \E e \in MostRecent(call.arg) : Val(call.ret) = e.path

=============================================================================
